---- MODULE Spec2Model ----
(***************************************************************************)
(* Model of libpurecoollink/dyson.py: the DysonAccount session, its three  *)
(* step login flow (status check, challenge initiation, interactive        *)
(* verification) and the device listing with its classification dispatch.  *)
(*                                                                         *)
(* A call is a sequence of steps separated by the blocking points of the   *)
(* code (an HTTP round trip, the terminal prompt); pc is the position of   *)
(* the single caller thread.  Python strings are TLA+ strings and "+" on   *)
(* strings is \o.  A JSON value is a tagged record, so that a non-string   *)
(* value (null) is distinguishable from a string; a JSON object is a       *)
(* function from the keys present to JSON values.                          *)
(***************************************************************************)
EXTENDS Integers, Sequences, FiniteSets, TLC

VARIABLES email, password, country,   \* self._email, self._password, self._country
          logged,                     \* self._logged
          headers,                    \* self._headers
          pc,                         \* position of the caller
          op,                         \* the call in progress, or the last one
          entry_logged,               \* self._logged when that call began
          entry_headers,              \* self._headers when that call began
          calls,                      \* number of calls begun
          token_arg,                  \* authentication_token of that call, "" if it has none
          events,                     \* observable events of that call, in order
          requests,                   \* HTTP requests of that call, in order
          resp1, resp2, resp3,        \* responses received by login() in that call
          challenge_id, otp,          \* locals of login()
          manifest,                   \* response received by devices() in that call
          outcome                     \* how that call ended

vars == <<email, password, country, logged, headers, pc, op, entry_logged,
          entry_headers, calls, token_arg, events, requests, resp1, resp2, resp3,
          challenge_id, otp, manifest, outcome>>

----------------------------------------------------------------------------
(* Bounds *)

MaxCalls == 3
MaxManifest == 3

----------------------------------------------------------------------------
(* Program constants *)

DYSON_API_URL == "appapi.cp.dyson.com"
OK == 200          \* requests.codes.ok
CONTENT_TYPE == "application/json"
USER_AGENT == "Dalvik/2.1.0 (Linux; U; Android 12; sdk_gphone64_x86_64 Build/S2B2.211203.006)"

----------------------------------------------------------------------------
(* Input domains *)

Emails == {"a@example.org"}
Passwords == {"pw"}
Countries == {"US", "FR"}
Tokens == {"t1", "t2"}
Otps == {"111111", "222222"}
ChallengeIds == {"c1", "c2"}
Statuses == {200, 401}

JStr(s) == [type |-> "string", value |-> s]
JNull == [type |-> "null", value |-> "null"]
IsStr(v) == v.type = "string"

EmptyJson == [k \in {} |-> JNull]

\* JSON objects over the keys K, every key either absent or bound to a value of V
JsonObjects(K, V) == UNION {[D -> V] : D \in SUBSET K}

StatusBodies ==
    { b \in JsonObjects({"accountStatus", "authenticationMethod"},
                        {JStr("ACTIVE"), JStr("INACTIVE"), JStr("EMAIL_PWD_2FA"),
                         JStr("EMAIL_PWD"), JNull}) :
        /\ "accountStatus" \in DOMAIN b =>
               b["accountStatus"] \in {JStr("ACTIVE"), JStr("INACTIVE"), JNull}
        /\ "authenticationMethod" \in DOMAIN b =>
               b["authenticationMethod"] \in {JStr("EMAIL_PWD_2FA"), JStr("EMAIL_PWD"), JNull} }

ChallengeBodies ==
    JsonObjects({"challengeId"}, {JStr(c) : c \in ChallengeIds} \cup {JNull})

VerifyBodies ==
    JsonObjects({"token"}, {JStr(t) : t \in Tokens} \cup {JNull})

Response(S, B) == [status : S, json : B]
NoResp == [status |-> 0, json |-> EmptyJson]

\* The external collaborators' view of a device record: the markers it carries
Markers == {"eye360", "heating"}
DeviceRecords == SUBSET Markers

RECURSIVE SeqsUpTo(_, _)
SeqsUpTo(S, n) ==
    IF n = 0 THEN {<<>>}
    ELSE LET shorter == SeqsUpTo(S, n - 1)
         IN  shorter \cup {Append(s, x) : s \in {t \in shorter : Len(t) = n - 1}, x \in S}

Manifests == SeqsUpTo(DeviceRecords, MaxManifest)

----------------------------------------------------------------------------
(* Results of a call *)

NoOutcome == [kind |-> "none", bool |-> FALSE, exc |-> "", devices |-> <<>>]
Returned(b) == [kind |-> "return", bool |-> b, exc |-> "", devices |-> <<>>]
ReturnedNone == [kind |-> "return_none", bool |-> FALSE, exc |-> "", devices |-> <<>>]
ReturnedDevices(ds) == [kind |-> "return_devices", bool |-> FALSE, exc |-> "", devices |-> ds]
Raised(e) == [kind |-> "raise", bool |-> FALSE, exc |-> e, devices |-> <<>>]

Request(m, u, j, h) == [method |-> m, url |-> u, json |-> j, headers |-> h]

----------------------------------------------------------------------------
(* DysonAccount.__init__ *)

InitHeaders == ("Content-Type" :> CONTENT_TYPE) @@ ("User-Agent" :> USER_AGENT)

\* The constructor with self._logged = True
Init_LoggedTrue ==
    /\ email \in Emails
    /\ password \in Passwords
    /\ country \in Countries
    /\ logged = TRUE
    /\ headers = InitHeaders
    /\ pc = "idle"
    /\ op = "init"
    /\ entry_logged = FALSE
    /\ entry_headers = InitHeaders
    /\ calls = 0
    /\ token_arg = ""
    /\ events = <<>>
    /\ requests = <<>>
    /\ resp1 = NoResp /\ resp2 = NoResp /\ resp3 = NoResp
    /\ challenge_id = "" /\ otp = ""
    /\ manifest = [status |-> 0, json |-> <<>>]
    /\ outcome = NoOutcome

Init ==
    /\ email \in Emails
    /\ password \in Passwords
    /\ country \in Countries
    /\ logged = FALSE
    /\ headers = InitHeaders
    /\ pc = "idle"
    /\ op = "init"
    /\ entry_logged = FALSE
    /\ entry_headers = InitHeaders
    /\ calls = 0
    /\ token_arg = ""
    /\ events = <<>>
    /\ requests = <<>>
    /\ resp1 = NoResp /\ resp2 = NoResp /\ resp3 = NoResp
    /\ challenge_id = "" /\ otp = ""
    /\ manifest = [status |-> 0, json |-> <<>>]
    /\ outcome = NoOutcome

\* Entry of a public method: the bookkeeping of the call, not program state
Begin(name, arg) ==
    /\ pc = "idle"
    /\ calls < MaxCalls
    /\ calls' = calls + 1
    /\ op' = name
    /\ token_arg' = arg
    /\ entry_logged' = logged
    /\ entry_headers' = headers
    /\ resp1' = NoResp /\ resp2' = NoResp /\ resp3' = NoResp
    /\ challenge_id' = "" /\ otp' = ""
    /\ manifest' = [status |-> 0, json |-> <<>>]

Identity == <<email, password, country>>
CallInfo == <<op, entry_logged, entry_headers, calls, token_arg>>

----------------------------------------------------------------------------
(* DysonAccount.use_authentication_token *)

\* use_authentication_token without the assignment of line 41
InstallToken_NoHeader(h, authentication_token) == h

\* use_authentication_token keeping an Authorization entry that is already there
InstallToken_KeepFirst(h, authentication_token) ==
    h @@ ("Authorization" :> ("Bearer " \o authentication_token))

\* use_authentication_token replacing the headers by the Authorization entry
InstallToken_DropOthers(h, authentication_token) ==
    ("Authorization" :> ("Bearer " \o authentication_token))

\* line 41: self._headers["Authorization"] = "Bearer " + authentication_token
InstallToken(h, authentication_token) ==
    ("Authorization" :> ("Bearer " \o authentication_token)) @@ h

use_authentication_token ==
    \E t \in Tokens :
        /\ Begin("use_authentication_token", t)
        /\ headers' = InstallToken(headers, t)
        /\ logged' = TRUE
        /\ pc' = "idle"
        /\ events' = <<>>
        /\ requests' = <<>>
        /\ outcome' = ReturnedNone
        /\ UNCHANGED Identity

----------------------------------------------------------------------------
(* DysonAccount.login *)

StatusUrl(cc) ==
    "https://" \o DYSON_API_URL \o "/v3/userregistration/email/userstatus?country=" \o cc
ChallengeUrl(cc) ==
    "https://" \o DYSON_API_URL \o "/v3/userregistration/email/auth?country=" \o cc
        \o "&culture=en-" \o cc
VerifyUrl(cc) ==
    "https://" \o DYSON_API_URL \o "/v3/userregistration/email/verify?country=" \o cc

\* lines 48-50
EmailBody(e) == ("email" :> e)
\* The verify body with the challenge id and the code exchanged
VerifyBody_Exchanged(e, p, c, o) ==
    ("email" :> e) @@ ("password" :> p) @@ ("challengeId" :> o) @@ ("otpCode" :> c)

\* lines 104-109
VerifyBody(e, p, c, o) ==
    ("email" :> e) @@ ("password" :> p) @@ ("challengeId" :> c) @@ ("otpCode" :> o)

\* The status-check step without the test of line 66
StatusStep_NoMethodTest(r) ==
    IF r.status = OK
    THEN IF "accountStatus" \notin DOMAIN r.json THEN "KeyError"
         ELSE IF r.json["accountStatus"] # JStr("ACTIVE")
              THEN IF IsStr(r.json["accountStatus"]) THEN "fail" ELSE "TypeError"
         ELSE IF "authenticationMethod" \notin DOMAIN r.json THEN "KeyError"
         ELSE "ok"
    ELSE "fail"

\* lines 57-74: what the code does with the status-check response
\*   "ok"        fall through to step 2
\*   "fail"      self._logged = False; return self._logged
\*   "KeyError"  a subscript of json_response on a missing key
\*   "TypeError" line 63 concatenates the account status to a str
StatusStep(r) ==
    IF r.status = OK
    THEN IF "accountStatus" \notin DOMAIN r.json THEN "KeyError"
         ELSE IF r.json["accountStatus"] # JStr("ACTIVE")
              THEN IF IsStr(r.json["accountStatus"]) THEN "fail" ELSE "TypeError"
         ELSE IF "authenticationMethod" \notin DOMAIN r.json THEN "KeyError"
         ELSE IF r.json["authenticationMethod"] # JStr("EMAIL_PWD_2FA") THEN "fail"
         ELSE "ok"
    ELSE "fail"

\* The challenge step without the test of line 84
ChallengeStep_NoStatusTest(r) ==
    IF "challengeId" \notin DOMAIN r.json THEN "fail"
    ELSE IF IsStr(r.json["challengeId"]) THEN "ok" ELSE "TypeError"

\* lines 84-98: what the code does with the challenge response
\*   "TypeError" line 94 concatenates the challenge id to a str
ChallengeStep(r) ==
    IF r.status = OK
    THEN IF "challengeId" \notin DOMAIN r.json THEN "fail"
         ELSE IF IsStr(r.json["challengeId"]) THEN "ok" ELSE "TypeError"
    ELSE "fail"

\* lines 115-121: the response was bound to login_response, and the name
\* `login` read at line 115 is bound neither in the method nor in the module
VerifyStep(r) == "NameError"

\* The end of a failed login() with the flag inverted
LoginEnds_Inverted(how) ==
    /\ pc' = "idle"
    /\ IF how = "fail"
       THEN logged' = TRUE /\ outcome' = Returned(TRUE)
       ELSE logged' = logged /\ outcome' = Raised(how)

\* The end of a login() call that did not fall through
LoginEnds(how) ==
    /\ pc' = "idle"
    /\ IF how = "fail"
       THEN logged' = FALSE /\ outcome' = Returned(FALSE)
       ELSE logged' = logged /\ outcome' = Raised(how)

\* lines 44-56: entry, and the status-check request
login ==
    /\ Begin("login", "")
    /\ events' = <<"status_request">>
    /\ requests' = <<Request("POST", StatusUrl(country), EmailBody(email), headers)>>
    /\ pc' = "login_status"
    /\ outcome' = NoOutcome
    /\ UNCHANGED <<Identity, logged, headers>>

\* lines 57-83: the status-check response, and on success the challenge request
login_status_response ==
    \E r \in Response(Statuses, StatusBodies) :
        /\ pc = "login_status"
        /\ resp1' = r
        /\ IF StatusStep(r) = "ok"
           THEN /\ events' = Append(events, "challenge_request")
                /\ requests' = Append(requests,
                       Request("POST", ChallengeUrl(country), EmailBody(email), headers))
                /\ pc' = "login_challenge"
                /\ UNCHANGED <<logged, outcome>>
           ELSE /\ LoginEnds(StatusStep(r))
                /\ UNCHANGED <<events, requests>>
        /\ UNCHANGED <<Identity, CallInfo, headers, resp2, resp3, challenge_id, otp, manifest>>

\* lines 84-102: the challenge response, and on success the terminal prompt
login_challenge_response ==
    \E r \in Response(Statuses, ChallengeBodies) :
        /\ pc = "login_challenge"
        /\ resp2' = r
        /\ IF ChallengeStep(r) = "ok"
           THEN /\ challenge_id' = r.json["challengeId"].value
                /\ events' = Append(events, "otp_prompt")
                /\ pc' = "login_otp"
                /\ UNCHANGED <<logged, outcome>>
           ELSE /\ LoginEnds(ChallengeStep(r))
                /\ UNCHANGED <<events, challenge_id>>
        /\ UNCHANGED <<Identity, CallInfo, headers, requests, resp1, resp3, otp, manifest>>

\* lines 102-113: the code typed at the prompt, and the verify request
login_otp_input ==
    \E o \in Otps :
        /\ pc = "login_otp"
        /\ otp' = o
        /\ events' = Append(events, "verify_request")
        /\ requests' = Append(requests,
               Request("POST", VerifyUrl(country),
                       VerifyBody(email, password, challenge_id, o), headers))
        /\ pc' = "login_verify"
        /\ UNCHANGED <<Identity, CallInfo, logged, headers, resp1, resp2, resp3,
                       challenge_id, manifest, outcome>>

\* lines 113-121: the verify response
login_verify_response ==
    \E r \in Response(Statuses, VerifyBodies) :
        /\ pc = "login_verify"
        /\ resp3' = r
        /\ LoginEnds(VerifyStep(r))
        /\ UNCHANGED <<Identity, CallInfo, headers, events, requests, resp1, resp2,
                       challenge_id, otp, manifest>>

----------------------------------------------------------------------------
(* DysonAccount.devices *)

ManifestUrl == "https://" \o DYSON_API_URL \o "/v1/provisioningservice/manifest"

\* utils.is_360_eye_device, utils.is_heating_device: attribute-presence checks
is_360_eye_device(device) == "eye360" \in device
is_heating_device(device) == "heating" \in device

Dyson360Eye(device) == [class |-> "Dyson360Eye", device |-> device]
DysonPureHotCoolLink(device) == [class |-> "DysonPureHotCoolLink", device |-> device]
DysonPureCoolLink(device) == [class |-> "DysonPureCoolLink", device |-> device]

\* The dispatch with the tests of lines 131 and 133 exchanged
DysonDevice_HeatingFirst(device) ==
    IF is_heating_device(device) THEN DysonPureHotCoolLink(device)
    ELSE IF is_360_eye_device(device) THEN Dyson360Eye(device)
    ELSE DysonPureCoolLink(device)

\* lines 131-136: the dispatch of one manifest record
DysonDevice(device) ==
    IF is_360_eye_device(device) THEN Dyson360Eye(device)
    ELSE IF is_heating_device(device) THEN DysonPureHotCoolLink(device)
    ELSE DysonPureCoolLink(device)

\* The loop skipping a record it has already seen
RECURSIVE DevicesLoop_Dedup(_, _)
DevicesLoop_Dedup(records, devices) ==
    IF records = <<>> THEN devices
    ELSE IF \E i \in DOMAIN devices : devices[i].device = Head(records)
         THEN DevicesLoop_Dedup(Tail(records), devices)
         ELSE DevicesLoop_Dedup(Tail(records), Append(devices, DysonDevice(Head(records))))

\* lines 129-139: the loop over device_response.json(), devices being the
\* list built so far
RECURSIVE DevicesLoop(_, _)
DevicesLoop(records, devices) ==
    IF records = <<>> THEN devices
    ELSE DevicesLoop(Tail(records), Append(devices, DysonDevice(Head(records))))

\* devices() without the test of line 125
DevicesBranch_NoTest(lg) == "request"

\* line 125: the branch devices() takes on self._logged
DevicesBranch(lg) == IF lg THEN "request" ELSE "raise"

\* lines 125-128 and 140-142: entry; the manifest request, or the exception
devices ==
    /\ Begin("devices", "")
    /\ IF DevicesBranch(logged) = "request"
       THEN /\ events' = <<"manifest_request">>
            /\ requests' = <<Request("GET", ManifestUrl, EmptyJson, headers)>>
            /\ pc' = "devices_manifest"
            /\ outcome' = NoOutcome
       ELSE /\ events' = <<>>
            /\ requests' = <<>>
            /\ pc' = "idle"
            /\ outcome' = Raised("DysonNotLoggedException")
    /\ UNCHANGED <<Identity, logged, headers>>

\* The manifest response clearing the flag on a status other than 200
devices_manifest_response_Logout ==
    \E r \in Response(Statuses, Manifests) :
        /\ pc = "devices_manifest"
        /\ manifest' = r
        /\ outcome' = ReturnedDevices(DevicesLoop(r.json, <<>>))
        /\ pc' = "idle"
        /\ logged' = (r.status = OK)
        /\ UNCHANGED <<Identity, CallInfo, headers, events, requests,
                       resp1, resp2, resp3, challenge_id, otp>>

\* lines 128-139: the manifest response; its status code is not read
devices_manifest_response ==
    \E r \in Response(Statuses, Manifests) :
        /\ pc = "devices_manifest"
        /\ manifest' = r
        /\ outcome' = ReturnedDevices(DevicesLoop(r.json, <<>>))
        /\ pc' = "idle"
        /\ UNCHANGED <<Identity, CallInfo, logged, headers, events, requests,
                       resp1, resp2, resp3, challenge_id, otp>>

----------------------------------------------------------------------------

Next ==
    \/ use_authentication_token
    \/ login
    \/ login_status_response
    \/ login_challenge_response
    \/ login_otp_input
    \/ login_verify_response
    \/ devices
    \/ devices_manifest_response

Spec == Init /\ [][Next]_vars

----------------------------------------------------------------------------
(* Type correctness *)

TypeOK ==
    /\ email \in Emails /\ password \in Passwords /\ country \in Countries
    /\ logged \in BOOLEAN
    /\ DOMAIN headers \subseteq {"Content-Type", "User-Agent", "Authorization"}
    /\ pc \in {"idle", "login_status", "login_challenge", "login_otp", "login_verify",
               "devices_manifest"}
    /\ op \in {"init", "use_authentication_token", "login", "devices"}
    /\ calls \in 0..MaxCalls
    /\ outcome.kind \in {"none", "return", "return_none", "return_devices", "raise"}

----------------------------------------------------------------------------
(* Properties of login() *)

LoginStarted == op = "login"
LoginEnded == op = "login" /\ pc = "idle"
Has(r, k) == k \in DOMAIN r.json
Received(r) == r # NoResp

\* Step 1 answered 200, "ACTIVE", "EMAIL_PWD_2FA"
StatusGood ==
    /\ resp1.status = 200
    /\ Has(resp1, "accountStatus") /\ resp1.json["accountStatus"] = JStr("ACTIVE")
    /\ Has(resp1, "authenticationMethod")
    /\ resp1.json["authenticationMethod"] = JStr("EMAIL_PWD_2FA")

\* Step 2 answered 200 with a challengeId
ChallengeGood ==
    /\ resp2.status = 200
    /\ Has(resp2, "challengeId") /\ IsStr(resp2.json["challengeId"])

\* Step 3 answered 200 with a token
VerifyGood ==
    /\ resp3.status = 200
    /\ Has(resp3, "token") /\ IsStr(resp3.json["token"])

\* C1: a login() call whose three requests are answered 200 with the expected
\* fields (ACTIVE, EMAIL_PWD_2FA, a challengeId, a token T) and in which an OTP
\* was entered returns true, leaves logged true and leaves
\* headers["Authorization"] = "Bearer " + T.
C1_FullLoginSucceeds ==
    (LoginEnded /\ StatusGood /\ ChallengeGood /\ otp \in Otps /\ VerifyGood)
        => /\ outcome = Returned(TRUE)
           /\ logged
           /\ "Authorization" \in DOMAIN headers
           /\ headers["Authorization"] = "Bearer " \o resp3.json["token"].value

\* C2: a login() call begun with logged false in which one of the three
\* requests is answered with a status other than 200 returns false and leaves
\* logged false.
C2_Non200ReturnsFalse ==
    (/\ LoginEnded
     /\ ~entry_logged
     /\ \E r \in {resp1, resp2, resp3} : Received(r) /\ r.status # 200)
        => outcome = Returned(FALSE) /\ ~logged

\* C3: login() never ends by raising: whatever the statuses and the JSON
\* shapes of the responses, the call ends by returning the logged flag.
C3_LoginNeverRaises ==
    LoginEnded => outcome.kind = "return" /\ outcome.bool = logged

\* The last response of the call is a 200 that lacks a field its step requires
MissingFieldAt(r, fields) ==
    Received(r) /\ r.status = 200 /\ \E k \in fields : ~Has(r, k)

\* C4: a 200 response lacking a required field is handled like a non-200
\* response: login() returns false, logged is false and no later step happens.
C4_MissingFieldIsFailure ==
    /\ (LoginStarted /\ MissingFieldAt(resp1, {"accountStatus", "authenticationMethod"}))
           => /\ pc = "idle" /\ outcome = Returned(FALSE) /\ ~logged
              /\ events = <<"status_request">>
    /\ (LoginStarted /\ MissingFieldAt(resp2, {"challengeId"}))
           => /\ pc = "idle" /\ outcome = Returned(FALSE) /\ ~logged
              /\ events = <<"status_request", "challenge_request">>
    /\ (LoginStarted /\ MissingFieldAt(resp3, {"token"}))
           => /\ pc = "idle" /\ outcome = Returned(FALSE) /\ ~logged

\* No step after the status check happened in the call
OnlyStatusCheck ==
    /\ events = <<"status_request">>
    /\ Len(requests) = 1
    /\ resp2 = NoResp /\ resp3 = NoResp /\ otp = "" /\ challenge_id = ""

\* C5: a login() call whose status check is answered 200 with an accountStatus
\* other than "ACTIVE" returns false with logged false, and neither the
\* challenge request, the OTP prompt nor the verify request happens.
C5_InactiveAborts ==
    (/\ LoginStarted
     /\ resp1.status = 200
     /\ Has(resp1, "accountStatus") /\ resp1.json["accountStatus"] # JStr("ACTIVE"))
        => pc = "idle" /\ outcome = Returned(FALSE) /\ ~logged /\ OnlyStatusCheck

\* Step 1 answered 200, "ACTIVE" and another authentication method
OtherMethod ==
    /\ resp1.status = 200
    /\ Has(resp1, "accountStatus") /\ resp1.json["accountStatus"] = JStr("ACTIVE")
    /\ Has(resp1, "authenticationMethod")
    /\ resp1.json["authenticationMethod"] # JStr("EMAIL_PWD_2FA")

\* C6: a login() call whose status check is answered 200 with accountStatus
\* "ACTIVE" and an authenticationMethod other than "EMAIL_PWD_2FA" returns
\* false with logged false, and neither the challenge request, the OTP prompt
\* nor the verify request happens.
C6_OtherMethodAborts ==
    (LoginStarted /\ OtherMethod)
        => pc = "idle" /\ outcome = Returned(FALSE) /\ ~logged /\ OnlyStatusCheck

\* Such a call, made on a session that was logged
C6_Witness ==
    LoginEnded /\ OtherMethod /\ entry_logged /\ outcome = Returned(FALSE)

----------------------------------------------------------------------------
(* Properties of the session state *)

HasBearer == 
    /\ "Authorization" \in DOMAIN headers
    /\ \E t \in Tokens : headers["Authorization"] = "Bearer " \o t

\* C7: in every reachable state, logged is true if and only if the headers
\* contain an Authorization bearer entry.
C7_LoggedIffBearer == logged <=> HasBearer

\* C7 as amended: in every reachable state, if logged is true then the
\* headers contain an Authorization bearer entry.
C7_LoggedImpliesBearer == logged => HasBearer

\* A logged session on which calls were made after the token was installed
C7_Witness == logged /\ HasBearer /\ pc = "idle" /\ op = "devices" /\ calls >= 2

----------------------------------------------------------------------------
(* Properties of devices() *)

\* C8: devices() called while logged is false raises
\* DysonNotLoggedException, returns no sequence and issues no request.
C8_NotLoggedRaises ==
    (op = "devices" /\ ~entry_logged)
        => /\ pc = "idle"
           /\ outcome = Raised("DysonNotLoggedException")
           /\ events = <<>> /\ requests = <<>>
           /\ manifest.status = 0

\* The call made on a session that holds a token and is no longer logged
C8_Witness ==
    /\ op = "devices" /\ ~entry_logged /\ HasBearer
    /\ outcome = Raised("DysonNotLoggedException")

DevicesReturned == op = "devices" /\ outcome.kind = "return_devices"

\* C9: every manifest record is classified by priority: a vacuum device if
\* the 360-eye predicate holds, whatever the heating predicate says; otherwise
\* a heating-link device if the heating predicate holds; otherwise a generic
\* cool-link device.
C9_ClassificationPriority ==
    DevicesReturned =>
        \A i \in 1..Len(manifest.json) :
            /\ i \in DOMAIN outcome.devices
            /\ LET d == manifest.json[i]
                   c == outcome.devices[i].class
               IN  /\ is_360_eye_device(d) => c = "Dyson360Eye"
                   /\ (~is_360_eye_device(d) /\ is_heating_device(d))
                          => c = "DysonPureHotCoolLink"
                   /\ (~is_360_eye_device(d) /\ ~is_heating_device(d))
                          => c = "DysonPureCoolLink"

\* A returned listing with a record that satisfies both predicates
C9_Witness ==
    /\ DevicesReturned
    /\ \E i \in 1..Len(manifest.json) :
           /\ is_360_eye_device(manifest.json[i]) /\ is_heating_device(manifest.json[i])
           /\ outcome.devices[i].class = "Dyson360Eye"

\* C10: devices() called while logged is true returns a sequence as long as
\* the manifest whose i-th element is the device built from the i-th record:
\* nothing is dropped, merged or reordered.
C10_ListingPreservesManifest ==
    (op = "devices" /\ entry_logged /\ pc = "idle")
        => /\ outcome.kind = "return_devices"
           /\ Len(outcome.devices) = Len(manifest.json)
           /\ \A i \in 1..Len(manifest.json) :
                  /\ outcome.devices[i].device = manifest.json[i]
                  /\ outcome.devices[i] = DysonDevice(manifest.json[i])

\* A returned listing of a manifest that repeats a record
C10_Witness ==
    /\ DevicesReturned
    /\ Len(manifest.json) = MaxManifest
    /\ manifest.json[1] = manifest.json[2]
    /\ manifest.json[1] # manifest.json[MaxManifest]
    /\ Len(outcome.devices) = MaxManifest

----------------------------------------------------------------------------
(* Further properties of devices(), use_authentication_token() and login() *)

\* C11: when devices() is called while logged is true and the manifest
\* request is answered with a status other than 200, the call ends in an
\* error and returns no device sequence.
C11_Non200ManifestIsError ==
    (op = "devices" /\ pc = "idle" /\ entry_logged /\ manifest.status \notin {0, 200})
        => outcome.kind = "raise"

\* C12: use_authentication_token(t), for every token t and from every session
\* state, sets headers["Authorization"] to "Bearer " + t, overwriting an
\* earlier token and keeping the other entries, sets logged to true and
\* issues no request.
C12_TokenInstalled ==
    op = "use_authentication_token"
        => /\ pc = "idle"
           /\ logged
           /\ DOMAIN headers = DOMAIN entry_headers \cup {"Authorization"}
           /\ headers["Authorization"] = "Bearer " \o token_arg
           /\ \A k \in DOMAIN entry_headers \ {"Authorization"} : headers[k] = entry_headers[k]
           /\ requests = <<>> /\ events = <<>>

\* A token installed over another one, on a session that was no longer logged
C12_Witness ==
    /\ op = "use_authentication_token"
    /\ ~entry_logged
    /\ "Authorization" \in DOMAIN entry_headers
    /\ entry_headers["Authorization"] # "Bearer " \o token_arg
    /\ headers["Authorization"] = "Bearer " \o token_arg

\* What the responses of the call alone make of the login
ResponsesSucceed == StatusGood /\ ChallengeGood /\ VerifyGood

\* C13: every login() call redoes the whole flow from the status check; the
\* logged flag after the call depends only on the responses of that call and
\* overwrites the earlier state (false after a failing call, the new token
\* after a succeeding one), and a call that passes steps 1 and 2 issues its
\* own challenge request and prompt and uses the challengeId it was given.
C13_LoginRedoesFlow ==
    LoginEnded
        => /\ events[1] = "status_request"
           /\ logged = ResponsesSucceed
           /\ ResponsesSucceed
                  => /\ "Authorization" \in DOMAIN headers
                     /\ headers["Authorization"] = "Bearer " \o resp3.json["token"].value
           /\ (StatusGood /\ ChallengeGood)
                  => /\ Len(events) >= 3
                     /\ events[2] = "challenge_request" /\ events[3] = "otp_prompt"
                     /\ challenge_id = resp2.json["challengeId"].value

----------------------------------------------------------------------------
(* Order of the events of login() *)

LoginOrder == <<"status_request", "challenge_request", "otp_prompt", "verify_request">>

\* C14: within one login() call the events happen only in the order status
\* request, challenge request, OTP prompt, verify request, each at most once,
\* and each only if every earlier step of the call succeeded.
C14_LoginEventOrder ==
    LoginStarted
        => /\ Len(events) \in 1..4
           /\ events = SubSeq(LoginOrder, 1, Len(events))
           /\ Len(events) >= 2 => StatusGood
           /\ Len(events) >= 3 => ChallengeGood
           /\ Len(events) = 4 => otp \in Otps
           /\ Len(requests) = Cardinality({i \in 1..Len(events) : events[i] # "otp_prompt"})

\* A call that went through its four events
C14_Witness == LoginEnded /\ events = LoginOrder /\ Len(requests) = 3

----------------------------------------------------------------------------
(* The headers *)

\* The entries set at construction are there with their values
ConstructionEntriesKept ==
    /\ {"Content-Type", "User-Agent"} \subseteq DOMAIN headers
    /\ headers["Content-Type"] = "application/json"
    /\ headers["User-Agent"] = USER_AGENT

\* A step adds or overwrites no entry but Authorization, and removes none
OnlyAuthorizationWritten ==
    /\ DOMAIN headers \subseteq DOMAIN headers'
    /\ DOMAIN headers' \ DOMAIN headers \subseteq {"Authorization"}
    /\ \A k \in DOMAIN headers \ {"Authorization"} : headers'[k] = headers[k]

\* C15: in every reachable state the headers contain Content-Type and
\* User-Agent with the values set at construction; the only entry an operation
\* adds or overwrites is Authorization, and no operation removes an entry.
C15_HeadersAppendOnly == []ConstructionEntriesKept /\ [][OnlyAuthorizationWritten]_vars

\* A verify request sent with the three entries, in the third call on the session
C15_Witness ==
    /\ pc = "login_verify"
    /\ ConstructionEntriesKept /\ HasBearer
    /\ requests[3].headers = headers
    /\ calls = 3

\* C16: a newly constructed session has logged false and headers made of
\* exactly Content-Type and User-Agent, so that devices() called before any
\* login or token installation raises DysonNotLoggedException.
C16_FreshSession ==
    /\ calls = 0
           => /\ ~logged
              /\ DOMAIN headers = {"Content-Type", "User-Agent"}
              /\ ConstructionEntriesKept
    /\ (calls = 1 /\ op = "devices")
           => /\ pc = "idle"
              /\ outcome = Raised("DysonNotLoggedException")
              /\ requests = <<>>

\* devices() as the first call on the session
C16_Witness ==
    calls = 1 /\ op = "devices" /\ outcome = Raised("DysonNotLoggedException")

----------------------------------------------------------------------------
(* The verify request *)

\* C17: the verify request of a login() call carries the challengeId of the
\* challenge response of that call and the OTP entered at the prompt of that
\* call, with the email and the password of the session; the prompt happens
\* after the challengeId is obtained and before the verify request is sent.
C17_VerifyCarriesChallenge ==
    /\ (LoginStarted /\ pc = "login_otp")
           => /\ ChallengeGood
              /\ events = SubSeq(LoginOrder, 1, 3)
              /\ Len(requests) = 2
    /\ (LoginStarted /\ Len(requests) >= 3)
           => /\ ChallengeGood
              /\ events = LoginOrder
              /\ requests[3].method = "POST"
              /\ DOMAIN requests[3].json = {"email", "password", "challengeId", "otpCode"}
              /\ requests[3].json["email"] = email
              /\ requests[3].json["password"] = password
              /\ requests[3].json["challengeId"] = resp2.json["challengeId"].value
              /\ requests[3].json["otpCode"] = otp
              /\ otp \in Otps

\* A verify request sent in a second login() call
C17_Witness ==
    /\ LoginStarted /\ pc = "login_verify" /\ calls >= 2
    /\ requests[3].json["challengeId"] = "c2"
    /\ requests[3].json["otpCode"] = "222222"

----------------------------------------------------------------------------
(* What the operations change *)

\* C18: devices() never changes the session: whether it returns or raises,
\* logged, the headers, the email, the password and the country are after the
\* call what they were before it.
C18_DevicesChangesNothing ==
    [][op' = "devices"
          => /\ logged' = logged /\ headers' = headers
             /\ email' = email /\ password' = password /\ country' = country]_vars

\* A listing returned for a manifest answered with a status other than 200
C18_Witness ==
    /\ op = "devices" /\ pc = "idle" /\ outcome.kind = "return_devices"
    /\ manifest.status # 200
    /\ logged = entry_logged /\ headers = entry_headers

====
